---- MODULE Spec2Model ----
(***************************************************************************)
(* Model of the conversational session layer of the health app back end    *)
(* (back_end/app/api/v1/chatbot.py): the in-memory conversation store, the  *)
(* non-streaming POST /chat handler and the streaming POST /chatS handler   *)
(* with its event generator.                                                *)
(*                                                                          *)
(* Scheduling: the handlers are coroutines on one asyncio event loop.  A    *)
(* coroutine runs without interruption between two suspension points; the   *)
(* suspension points are `await get_user_profile(...)` in both handlers and *)
(* every `yield` of the asynchronous generator `generate`.  chain.invoke    *)
(* and chain.stream are synchronous calls, so they do not suspend.  One     *)
(* action of the model is one such uninterrupted run.                       *)
(*                                                                          *)
(* Text (message text, model output, stream fragments) is a sequence of     *)
(* characters; `+=` on text is \o.  An Optional[X] value is <<>> (None) or  *)
(* <<x>>.                                                                   *)
(***************************************************************************)
EXTENDS Integers, Sequences, FiniteSets, TLC

\* Number of requests the clients send.
MaxTurns == 2
\* Largest number of text fragments the model backend produces in one generation.
MaxFrags == 2

Turns == 1..MaxTurns

\* User ids the clients send; only those of StoredUsers have a user record,
\* so get_user_profile returns None for "u1".
Users == {"u1", "u2"}
StoredUsers == {"u2"}

\* The message text of the t-th request (each request has its own text).
Message(t) == <<"m", ToString(t)>>

\* Conversation ids the clients invent themselves.
ClientIds == {"c1"}

\* The k-th text fragment the model backend produces in one generation.  The
\* code never inspects a fragment; the fragments of a generation are pairwise
\* different so that a lost, repeated or displaced fragment shows.
Fragment(k) == <<"f", ToString(k)>>

VARIABLES
    conversations,  \* chatbot.conversations: conversation id -> history.messages
    uuidCount,      \* number of uuid.uuid4() calls made so far
    request,        \* per turn: <<>> or <<ChatRequest>> plus the endpoint it was sent to
    pc,             \* per turn: where its coroutine is suspended
    status,         \* per turn: HTTP status of the response, "" while there is none
    conv_id,        \* per turn: the handler's local conv_id, <<>> before it is assigned
    reply,          \* per turn: <<>> or <<ChatResponse>> (POST /chat)
    full_response,  \* per turn: generate's local full_response
    events,         \* per turn: the events generate has yielded
    invoked,        \* per turn: number of model invocations (chain.invoke / chain.stream)
    context,        \* per turn: the history messages handed to the model
    generated,      \* per turn: the fragments the model backend has produced
    model,          \* per turn: "idle", "running", "ok" or "failed": the backend's generation
    doneAtStart,    \* per turn: the turns on the conversation it names that were
                    \* finished when its request arrived
    call,           \* the call of a function of prompts.py or vision.py under
                    \* study: its name and its arguments (NoCall in the session model)
    outcome         \* <<>> until that call has returned, then <<what it returned>>

vars == <<conversations, uuidCount, request, pc, status, conv_id, reply,
          full_response, events, invoked, context, generated, model, doneAtStart,
          call, outcome>>

\* No function of prompts.py or vision.py is under study.
NoCall == [fn |-> "none"]

----------------------------------------------------------------------------
\* Pure helpers

\* The test `is not None` in the place of truthiness: "" counts as given.
Truthy_NotNone(opt) == opt # <<>>

\* Python truthiness of an Optional[str]: None and "" are falsy.
Truthy(opt) == opt # <<>> /\ opt[1] # ""

\* str(uuid.uuid4()): the n-th identifier drawn; never empty, never repeated,
\* never equal to an identifier a client invented.
Uuid(n) == "uuid-" \o ToString(n)

\* ResolveConvId that ignores the identifier of the request.
ResolveConvId_AlwaysNew(opt, n) == Uuid(n)

\* conv_id = request.conversation_id or str(uuid.uuid4())
ResolveConvId(opt, n) == IF Truthy(opt) THEN opt[1] ELSE Uuid(n)

HumanMessage(text) == [type |-> "human", content |-> text]
AIMessage(text) == [type |-> "ai", content |-> text]

\* get_conversation without its membership test: a new history every call.
GetConversation_Fresh(convs, conv) ==
    [c \in DOMAIN convs \cup {conv} |-> IF c = conv THEN <<>> ELSE convs[c]]

\* get_conversation: the store after the call; the returned history is the
\* entry under conv (entries are never replaced, so the key names the object).
GetConversation(convs, conv) ==
    IF conv \notin DOMAIN convs THEN convs @@ (conv :> <<>>) ELSE convs

\* add_user_message that records nothing.
AddUserMessage_Skip(convs, conv, text) == convs

\* history.add_user_message(text)
AddUserMessage(convs, conv, text) ==
    [convs EXCEPT ![conv] = Append(@, HumanMessage(text))]

\* add_ai_message that keeps only the latest exchange of the history.
AddAiMessage_Prune(convs, conv, text) ==
    [convs EXCEPT ![conv] = <<@[Len(@)], AIMessage(text)>>]

\* history.add_ai_message(text)
AddAiMessage(convs, conv, text) ==
    [convs EXCEPT ![conv] = Append(@, AIMessage(text))]

\* The text of a list of fragments: what the backend returns for a complete
\* (non-streamed) generation that produced these fragments.
RECURSIVE Concat(_)
Concat(frags) ==
    IF frags = <<>> THEN <<>> ELSE Head(frags) \o Concat(Tail(frags))

\* The fragments of a generation of n fragments.
Generation(n) == [k \in 1..n |-> Fragment(k)]

\* The frames generate yields (the JSON payload of each "data:" line).
StartEvent(conv) == [type |-> "start", conversation_id |-> conv]
ChunkEvent(frag) == [type |-> "chunk", content |-> frag]
EndEvent == [type |-> "end"]
\* str(e) of the exception the model call raised.
ErrorText == <<"e">>
ErrorEvent == [type |-> "error", error |-> ErrorText]

\* Identifiers a client has been told: in a ChatResponse or in a start event.
Revealed ==
    {reply[t][1].conversation_id : t \in {u \in Turns : reply[u] # <<>>}}
    \cup {events[t][1].conversation_id : t \in {u \in Turns : events[u] # <<>>}}

\* The turns on the conversation opt names that are finished (none for None).
Finished(opt) == {t \in Turns : pc[t] = "done" /\ opt # <<>> /\ conv_id[t] = opt}

----------------------------------------------------------------------------
Init ==
    /\ conversations = <<>>
    /\ uuidCount = 0
    /\ request = [t \in Turns |-> <<>>]
    /\ pc = [t \in Turns |-> "idle"]
    /\ status = [t \in Turns |-> ""]
    /\ conv_id = [t \in Turns |-> <<>>]
    /\ reply = [t \in Turns |-> <<>>]
    /\ full_response = [t \in Turns |-> <<>>]
    /\ events = [t \in Turns |-> <<>>]
    /\ invoked = [t \in Turns |-> 0]
    /\ context = [t \in Turns |-> <<>>]
    /\ generated = [t \in Turns |-> <<>>]
    /\ model = [t \in Turns |-> "idle"]
    /\ doneAtStart = [t \in Turns |-> {}]
    /\ call = NoCall
    /\ outcome = <<>>

\* The requests a client can send as the t-th one: either endpoint, either
\* user, and a conversation_id that is omitted, invented by the client or one
\* a response has revealed.  For the user without a profile the identifier is
\* omitted or invented.
Requests(t) ==
    {[endpoint |-> ep, message |-> Message(t), user_id |-> u, conversation_id |-> c] :
        ep \in {"chat", "chatS"}, u \in StoredUsers,
        c \in {<<>>} \cup {<<i>> : i \in ClientIds \cup Revealed}}
    \cup
    {[endpoint |-> ep, message |-> Message(t), user_id |-> u, conversation_id |-> c] :
        ep \in {"chat", "chatS"}, u \in Users \ StoredUsers,
        c \in {<<>>} \cup {<<i>> : i \in ClientIds}}

\* A client sends a ChatRequest to POST /chat or POST /chatS; the handler
\* starts and suspends in `await get_user_profile(request.user_id)`.
Request(t) ==
    /\ pc[t] = "idle"
    /\ IF t = 1 THEN TRUE ELSE pc[t - 1] # "idle"
    /\ \E r \in Requests(t) :
        /\ request' = [request EXCEPT ![t] = <<r>>]
        /\ doneAtStart' = [doneAtStart EXCEPT ![t] = Finished(r.conversation_id)]
    /\ pc' = [pc EXCEPT ![t] = "profile"]
    /\ UNCHANGED <<call, outcome, conversations, uuidCount, status, conv_id, reply, full_response,
                   events, invoked, context, generated, model>>

Req(t) == request[t][1]
Awaiting(t, ep) == pc[t] = "profile" /\ Req(t).endpoint = ep

\* The uuid counter after resolving the conversation id of turn t.
UuidAfter(t) == IF Truthy(Req(t).conversation_id) THEN uuidCount ELSE uuidCount + 1

----------------------------------------------------------------------------
\* POST /chat

\* ChatNotFound with the conversation looked up before the profile is tested.
ChatNotFound_Creates(t) ==
    /\ pc[t] = "profile" /\ request[t][1].endpoint = "chat"
    /\ request[t][1].user_id \notin StoredUsers
    /\ conversations' = GetConversation(conversations,
            ResolveConvId(request[t][1].conversation_id, uuidCount + 1))
    /\ status' = [status EXCEPT ![t] = "404"]
    /\ pc' = [pc EXCEPT ![t] = "done"]
    /\ UNCHANGED <<call, outcome, uuidCount, request, conv_id, reply, full_response,
                   events, invoked, context, generated, model, doneAtStart>>

\* chat: the profile is missing, HTTPException(404).
ChatNotFound(t) ==
    /\ Awaiting(t, "chat")
    /\ Req(t).user_id \notin StoredUsers
    /\ status' = [status EXCEPT ![t] = "404"]
    /\ pc' = [pc EXCEPT ![t] = "done"]
    /\ UNCHANGED <<call, outcome, conversations, uuidCount, request, conv_id, reply, full_response,
                   events, invoked, context, generated, model, doneAtStart>>

\* chat: chain.invoke returns the complete text.
ChatSucceeds(t) ==
    /\ Awaiting(t, "chat")
    /\ Req(t).user_id \in StoredUsers
    /\ LET conv == ResolveConvId(Req(t).conversation_id, uuidCount + 1)
           store == GetConversation(conversations, conv)
       IN \E n \in 0..MaxFrags :
            LET frags == Generation(n)
                response == Concat(frags)
            IN /\ conv_id' = [conv_id EXCEPT ![t] = <<conv>>]
               /\ invoked' = [invoked EXCEPT ![t] = @ + 1]
               /\ context' = [context EXCEPT ![t] = store[conv]]
               /\ generated' = [generated EXCEPT ![t] = frags]
               /\ model' = [model EXCEPT ![t] = "ok"]
               /\ conversations' =
                    AddAiMessage(AddUserMessage(store, conv, Req(t).message), conv, response)
               /\ reply' = [reply EXCEPT ![t] =
                    <<[response |-> response, conversation_id |-> conv]>>]
    /\ uuidCount' = UuidAfter(t)
    /\ status' = [status EXCEPT ![t] = "200"]
    /\ pc' = [pc EXCEPT ![t] = "done"]
    /\ UNCHANGED <<call, outcome, request, full_response, events, doneAtStart>>

\* ChatModelFails with the user message recorded before the model is asked.
ChatModelFails_KeepsUser(t) ==
    /\ pc[t] = "profile" /\ request[t][1].endpoint = "chat"
    /\ request[t][1].user_id \in StoredUsers
    /\ LET conv == ResolveConvId(request[t][1].conversation_id, uuidCount + 1)
           store == GetConversation(conversations, conv)
       IN /\ conv_id' = [conv_id EXCEPT ![t] = <<conv>>]
          /\ invoked' = [invoked EXCEPT ![t] = @ + 1]
          /\ context' = [context EXCEPT ![t] = store[conv]]
          /\ model' = [model EXCEPT ![t] = "failed"]
          /\ conversations' = AddUserMessage(store, conv, request[t][1].message)
    /\ uuidCount' = IF Truthy(request[t][1].conversation_id) THEN uuidCount ELSE uuidCount + 1
    /\ status' = [status EXCEPT ![t] = "500"]
    /\ pc' = [pc EXCEPT ![t] = "done"]
    /\ UNCHANGED <<call, outcome, request, reply, full_response, events, generated, doneAtStart>>

\* chat: chain.invoke raises, HTTPException(500).
ChatModelFails(t) ==
    /\ Awaiting(t, "chat")
    /\ Req(t).user_id \in StoredUsers
    /\ LET conv == ResolveConvId(Req(t).conversation_id, uuidCount + 1)
           store == GetConversation(conversations, conv)
       IN /\ conv_id' = [conv_id EXCEPT ![t] = <<conv>>]
          /\ invoked' = [invoked EXCEPT ![t] = @ + 1]
          /\ context' = [context EXCEPT ![t] = store[conv]]
          /\ model' = [model EXCEPT ![t] = "failed"]
          /\ conversations' = store
    /\ uuidCount' = UuidAfter(t)
    /\ status' = [status EXCEPT ![t] = "500"]
    /\ pc' = [pc EXCEPT ![t] = "done"]
    /\ UNCHANGED <<call, outcome, request, reply, full_response, events, generated, doneAtStart>>

----------------------------------------------------------------------------
\* POST /chatS

\* chat_stream: the profile is missing, HTTPException(404).
StreamNotFound(t) ==
    /\ Awaiting(t, "chatS")
    /\ Req(t).user_id \notin StoredUsers
    /\ status' = [status EXCEPT ![t] = "404"]
    /\ pc' = [pc EXCEPT ![t] = "done"]
    /\ UNCHANGED <<call, outcome, conversations, uuidCount, request, conv_id, reply, full_response,
                   events, invoked, context, generated, model, doneAtStart>>

\* StreamHandle that leaves the creation of the entry to the generator.
StreamHandle_NoEntry(t) ==
    /\ Awaiting(t, "chatS")
    /\ Req(t).user_id \in StoredUsers
    /\ LET conv == ResolveConvId(Req(t).conversation_id, uuidCount + 1)
       IN conv_id' = [conv_id EXCEPT ![t] = <<conv>>]
    /\ uuidCount' = UuidAfter(t)
    /\ status' = [status EXCEPT ![t] = "200"]
    /\ pc' = [pc EXCEPT ![t] = "gen"]
    /\ UNCHANGED <<call, outcome, conversations, request, reply, full_response, events,
                   invoked, context, generated, model, doneAtStart>>

\* chat_stream: resolves the conversation, builds the chain and returns the
\* StreamingResponse around generate(); the generator has not run yet.
StreamHandle(t) ==
    /\ Awaiting(t, "chatS")
    /\ Req(t).user_id \in StoredUsers
    /\ LET conv == ResolveConvId(Req(t).conversation_id, uuidCount + 1)
       IN /\ conv_id' = [conv_id EXCEPT ![t] = <<conv>>]
          /\ conversations' = GetConversation(conversations, conv)
    /\ uuidCount' = UuidAfter(t)
    /\ status' = [status EXCEPT ![t] = "200"]
    /\ pc' = [pc EXCEPT ![t] = "gen"]
    /\ UNCHANGED <<call, outcome, request, reply, full_response, events, invoked, context,
                   generated, model, doneAtStart>>

\* GenStart that records the user message before the model is asked.
GenStart_AddsUser(t) ==
    /\ pc[t] = "gen"
    /\ full_response' = [full_response EXCEPT ![t] = <<>>]
    /\ events' = [events EXCEPT ![t] = Append(@, StartEvent(conv_id[t][1]))]
    /\ conversations' = AddUserMessage(conversations, conv_id[t][1], request[t][1].message)
    /\ pc' = [pc EXCEPT ![t] = "streaming"]
    /\ UNCHANGED <<call, outcome, uuidCount, request, status, conv_id, reply,
                   invoked, context, generated, model, doneAtStart>>

\* generate, up to its first yield: the start event.
GenStart(t) ==
    /\ pc[t] = "gen"
    /\ full_response' = [full_response EXCEPT ![t] = <<>>]
    /\ events' = [events EXCEPT ![t] = Append(@, StartEvent(conv_id[t][1]))]
    /\ pc' = [pc EXCEPT ![t] = "streaming"]
    /\ UNCHANGED <<call, outcome, conversations, uuidCount, request, status, conv_id, reply,
                   invoked, context, generated, model, doneAtStart>>

\* chain.stream(...) is called when generate resumes after the start event;
\* the call reads history.messages as it is then.
Invoked(t) == IF model[t] = "idle" THEN invoked[t] + 1 ELSE invoked[t]
Context(t) == IF model[t] = "idle" THEN conversations[conv_id[t][1]] ELSE context[t]

\* GenChunk that yields the text accumulated so far instead of the fragment.
GenChunk_Cumulative(t) ==
    /\ pc[t] = "streaming"
    /\ Len(generated[t]) < MaxFrags
    /\ LET chunk == Fragment(Len(generated[t]) + 1)
       IN /\ generated' = [generated EXCEPT ![t] = Append(@, chunk)]
          /\ full_response' = [full_response EXCEPT ![t] = @ \o chunk]
          /\ events' = [events EXCEPT ![t] = Append(@, ChunkEvent(full_response[t] \o chunk))]
    /\ invoked' = [invoked EXCEPT ![t] = Invoked(t)]
    /\ context' = [context EXCEPT ![t] = Context(t)]
    /\ model' = [model EXCEPT ![t] = "running"]
    /\ UNCHANGED <<call, outcome, conversations, uuidCount, request, pc, status, conv_id, reply,
                   doneAtStart>>

\* generate, resumed: the stream yields one more fragment, which is added to
\* full_response and yielded as a chunk event.
GenChunk(t) ==
    /\ pc[t] = "streaming"
    /\ Len(generated[t]) < MaxFrags
    /\ LET chunk == Fragment(Len(generated[t]) + 1)
       IN /\ generated' = [generated EXCEPT ![t] = Append(@, chunk)]
          /\ full_response' = [full_response EXCEPT ![t] = @ \o chunk]
          /\ events' = [events EXCEPT ![t] = Append(@, ChunkEvent(chunk))]
    /\ invoked' = [invoked EXCEPT ![t] = Invoked(t)]
    /\ context' = [context EXCEPT ![t] = Context(t)]
    /\ model' = [model EXCEPT ![t] = "running"]
    /\ UNCHANGED <<call, outcome, conversations, uuidCount, request, pc, status, conv_id, reply,
                   doneAtStart>>

\* generate, resumed: the stream is exhausted; the turn is added to the
\* history, the end event is yielded and the generator returns.
GenEnd(t) ==
    /\ pc[t] = "streaming"
    /\ LET conv == conv_id[t][1]
       IN conversations' =
            AddAiMessage(AddUserMessage(conversations, conv, Req(t).message),
                         conv, full_response[t])
    /\ events' = [events EXCEPT ![t] = Append(@, EndEvent)]
    /\ invoked' = [invoked EXCEPT ![t] = Invoked(t)]
    /\ context' = [context EXCEPT ![t] = Context(t)]
    /\ model' = [model EXCEPT ![t] = "ok"]
    /\ pc' = [pc EXCEPT ![t] = "done"]
    /\ UNCHANGED <<call, outcome, uuidCount, request, status, conv_id, reply, full_response,
                   generated, doneAtStart>>

\* GenError that records the user message of the failed turn.
GenError_KeepsUser(t) ==
    /\ pc[t] = "streaming"
    /\ conversations' = AddUserMessage(conversations, conv_id[t][1], request[t][1].message)
    /\ events' = [events EXCEPT ![t] = Append(@, ErrorEvent)]
    /\ invoked' = [invoked EXCEPT ![t] = Invoked(t)]
    /\ context' = [context EXCEPT ![t] = Context(t)]
    /\ model' = [model EXCEPT ![t] = "failed"]
    /\ pc' = [pc EXCEPT ![t] = "done"]
    /\ UNCHANGED <<call, outcome, uuidCount, request, status, conv_id, reply,
                   full_response, generated, doneAtStart>>

\* GenError with the try/except inside the loop: the error event is yielded
\* and the generator carries on with the stream.
GenError_Continues(t) ==
    /\ pc[t] = "streaming"
    /\ model[t] # "failed"
    /\ events' = [events EXCEPT ![t] = Append(@, ErrorEvent)]
    /\ invoked' = [invoked EXCEPT ![t] = Invoked(t)]
    /\ context' = [context EXCEPT ![t] = Context(t)]
    /\ model' = [model EXCEPT ![t] = "failed"]
    /\ UNCHANGED <<call, outcome, conversations, uuidCount, request, pc, status, conv_id, reply,
                   full_response, generated, doneAtStart>>

\* generate, resumed: the stream raises; the error event is yielded and the
\* generator returns.
GenError(t) ==
    /\ pc[t] = "streaming"
    /\ events' = [events EXCEPT ![t] = Append(@, ErrorEvent)]
    /\ invoked' = [invoked EXCEPT ![t] = Invoked(t)]
    /\ context' = [context EXCEPT ![t] = Context(t)]
    /\ model' = [model EXCEPT ![t] = "failed"]
    /\ pc' = [pc EXCEPT ![t] = "done"]
    /\ UNCHANGED <<call, outcome, conversations, uuidCount, request, status, conv_id, reply,
                   full_response, generated, doneAtStart>>

----------------------------------------------------------------------------
Next ==
    \E t \in Turns :
        \/ Request(t)
        \/ ChatNotFound(t)
        \/ ChatSucceeds(t)
        \/ ChatModelFails(t)
        \/ StreamNotFound(t)
        \/ StreamHandle(t)
        \/ GenStart(t)
        \/ GenChunk(t)
        \/ GenEnd(t)
        \/ GenError(t)

Spec == Init /\ [][Next]_vars

----------------------------------------------------------------------------
\* Requests with an empty conversation_id.  ChatRequest declares
\* conversation_id as Optional[str], so "" passes validation.

\* The requests of clients that send "" as conversation_id, or an
\* identifier a response has revealed; all for a user with a profile.
RequestsEmptyId(t) ==
    {[endpoint |-> ep, message |-> Message(t), user_id |-> u, conversation_id |-> c] :
        ep \in {"chat", "chatS"}, u \in StoredUsers,
        c \in {<<"">>} \cup {<<i>> : i \in Revealed}}

\* A client sends such a request; the handler starts and suspends in
\* `await get_user_profile(request.user_id)`.
RequestEmptyId(t) ==
    /\ pc[t] = "idle"
    /\ IF t = 1 THEN TRUE ELSE pc[t - 1] # "idle"
    /\ \E r \in RequestsEmptyId(t) :
        /\ request' = [request EXCEPT ![t] = <<r>>]
        /\ doneAtStart' = [doneAtStart EXCEPT ![t] = Finished(r.conversation_id)]
    /\ pc' = [pc EXCEPT ![t] = "profile"]
    /\ UNCHANGED <<call, outcome, conversations, uuidCount, status, conv_id, reply,
                   full_response, events, invoked, context, generated, model>>

NextEmptyId ==
    \E t \in Turns :
        \/ RequestEmptyId(t)
        \/ ChatSucceeds(t)
        \/ ChatModelFails(t)
        \/ StreamHandle(t)
        \/ GenStart(t)
        \/ GenChunk(t)
        \/ GenEnd(t)
        \/ GenError(t)

SpecEmptyId == Init /\ [][NextEmptyId]_vars

----------------------------------------------------------------------------
\* Vocabulary of the properties

IsChat(t) == request[t] # <<>> /\ Req(t).endpoint = "chat"
IsStream(t) == request[t] # <<>> /\ Req(t).endpoint = "chatS"

Last(seq) == seq[Len(seq)]

\* The stored history of a conversation id; empty for an id without entry.
Hist(c) == IF c \in DOMAIN conversations THEN conversations[c] ELSE <<>>

\* The turn has completed successfully: POST /chat has returned its
\* ChatResponse, POST /chatS has yielded its end event.
Completed(t) ==
    \/ IsChat(t) /\ reply[t] # <<>>
    \/ IsStream(t) /\ events[t] # <<>> /\ Last(events[t]).type = "end"

\* The streaming turn has yielded its error event.
StreamFailed(t) ==
    IsStream(t) /\ events[t] # <<>> /\ Last(events[t]).type = "error"

\* The two messages of a turn: its user message and the backend's full reply.
UserOf(t) == [type |-> "human", content |-> Message(t)]
ReplyOf(t) == [type |-> "ai", content |-> Concat(generated[t])]

\* The turn's two messages stand at positions i, i+1 of h.
PairAt(h, i, t) ==
    /\ i >= 1 /\ i + 1 <= Len(h)
    /\ h[i] = UserOf(t)
    /\ h[i + 1] = ReplyOf(t)

\* t1, a turn on the conversation t2 names, was finished when the request of
\* t2 arrived.
Before(t1, t2) == t1 \in doneAtStart[t2]

\* Two turns on one conversation, neither finished when the other's request
\* arrived.
Concurrent(t1, t2) ==
    /\ t1 # t2 /\ conv_id[t1] # <<>> /\ conv_id[t1] = conv_id[t2]
    /\ ~Before(t1, t2) /\ ~Before(t2, t1)

\* The content of the chunk events of a list of events, in order.
RECURSIVE ChunkPayloads(_)
ChunkPayloads(evs) ==
    IF evs = <<>> THEN <<>>
    ELSE IF Head(evs).type = "chunk"
         THEN <<Head(evs).content>> \o ChunkPayloads(Tail(evs))
         ELSE ChunkPayloads(Tail(evs))

----------------------------------------------------------------------------
\* C1: the events of a streaming turn are, at every moment, a prefix of
\* start(resolved conversation id), chunk*, terminal: nothing before the
\* generator runs or for a 404; the start event first, carrying the turn's
\* conversation id; then one chunk event per fragment the backend produced, in
\* the order of generation; and, once the generator has finished, exactly one
\* more event, `end` if the generation succeeded and `error` if it failed, with
\* nothing after it.
C1_EventOrder ==
    \A t \in Turns : IsStream(t) =>
        LET e == events[t]
            n == Len(generated[t])
            Body == /\ Len(e) >= n + 1
                    /\ e[1] = [type |-> "start", conversation_id |-> conv_id[t][1]]
                    /\ conv_id[t][1] \in DOMAIN conversations
                    /\ \A i \in 1..n :
                         e[i + 1] = [type |-> "chunk", content |-> generated[t][i]]
        IN /\ pc[t] \in {"profile", "gen"} => e = <<>>
           /\ status[t] = "404" => e = <<>>
           /\ pc[t] = "streaming" => Body /\ Len(e) = n + 1
           /\ (pc[t] = "done" /\ status[t] = "200") =>
                /\ Body
                /\ Len(e) = n + 2
                /\ model[t] \in {"ok", "failed"}
                /\ model[t] = "ok" => e[n + 2].type = "end"
                /\ model[t] = "failed" => e[n + 2].type = "error"

\* C1 witness: a streaming turn whose generation failed after its first
\* fragment has finished.
C1_Witness ==
    \E t \in Turns :
        /\ IsStream(t) /\ pc[t] = "done"
        /\ Len(generated[t]) >= 1
        /\ Last(events[t]).type = "error"

\* C2: when two turns on one conversation id have both completed successfully,
\* the second having arrived after the first was finished, and no other turn
\* on that id has completed, the history of that id is exactly
\* [user1, assistant1, user2, assistant2], the assistant messages being the
\* backend's full replies.
C2_TwoSequentialTurns ==
    \A t1, t2 \in Turns :
        ( /\ t1 # t2
          /\ Completed(t1) /\ Completed(t2)
          /\ conv_id[t1] = conv_id[t2]
          /\ Before(t1, t2)
          /\ \A t3 \in Turns \ {t1, t2} :
                ~(Completed(t3) /\ conv_id[t3] = conv_id[t1]) )
        => conversations[conv_id[t1][1]]
             = <<UserOf(t1), ReplyOf(t1), UserOf(t2), ReplyOf(t2)>>

\* C2 witness: a non-streaming turn followed by a streaming turn on the same
\* id, both completed, each with a reply of at least one fragment.
C2_Witness ==
    \E t1, t2 \in Turns :
        /\ IsChat(t1) /\ IsStream(t2)
        /\ Completed(t1) /\ Completed(t2)
        /\ conv_id[t1] = conv_id[t2]
        /\ Before(t1, t2)
        /\ generated[t1] # <<>> /\ generated[t2] # <<>>
        /\ Len(conversations[conv_id[t1][1]]) = 4

\* C3 as claimed: once a streaming turn has yielded its error event, its user
\* message is in the history of its conversation.
C3_UserMessageKeptOnFailure ==
    \A t \in Turns : StreamFailed(t) =>
        \E i \in 1..Len(Hist(conv_id[t][1])) : Hist(conv_id[t][1])[i] = UserOf(t)

\* C3 amended: a streaming turn whose model call failed has added nothing to
\* the store: its user message is in no history, and the history of its
\* conversation holds only the messages of completed turns.
C3_NothingKeptOnFailure ==
    \A t \in Turns : StreamFailed(t) =>
        /\ \A c \in DOMAIN conversations : \A i \in 1..Len(conversations[c]) :
              conversations[c][i] # UserOf(t)
        /\ \A i \in 1..Len(Hist(conv_id[t][1])) :
              \E u \in Turns \ {t} :
                 /\ Completed(u)
                 /\ Hist(conv_id[t][1])[i] \in {UserOf(u), ReplyOf(u)}

\* C3 witness: a streaming turn failed after its first chunk, on a
\* conversation another turn has completed on.
C3_Witness ==
    \E t \in Turns :
        /\ StreamFailed(t)
        /\ Len(generated[t]) >= 1
        /\ Len(Hist(conv_id[t][1])) = 2

\* C4: the step in which the model invocation of a POST /chat turn fails ends
\* the turn with status 500 and no ChatResponse, has invoked the model exactly
\* once, and leaves the messages of every conversation as they were (an entry
\* the step creates is empty).
C4_Step ==
    \A t \in Turns :
        (IsChat(t) /\ pc[t] = "profile" /\ pc'[t] = "done" /\ model'[t] = "failed") =>
            /\ status'[t] = "500"
            /\ reply'[t] = <<>>
            /\ invoked'[t] = 1
            /\ \A c \in DOMAIN conversations' : conversations'[c] = Hist(c)
C4_FailureLeavesHistory == [][C4_Step]_vars

\* C4 witness: a POST /chat turn has failed with 500 on a conversation that
\* holds the two messages of an earlier turn.
C4_Witness ==
    \E t \in Turns :
        /\ IsChat(t) /\ status[t] = "500"
        /\ Len(Hist(conv_id[t][1])) = 2

\* C5: a turn answered 404 has invoked no model, yielded no event and resolved
\* no conversation id; the keys of the store are exactly the ids resolved by
\* the turns whose profile was found, and every uuid drawn was drawn by such a
\* turn, so a 404 turn has created no entry, neither for the id it sent nor
\* for a generated one.
C5_NotFoundLeavesStore ==
    LET Passed == {t \in Turns : conv_id[t] # <<>>}
    IN /\ \A t \in Turns : status[t] = "404" =>
            /\ Req(t).user_id \notin StoredUsers
            /\ pc[t] = "done"
            /\ invoked[t] = 0 /\ model[t] = "idle"
            /\ events[t] = <<>> /\ reply[t] = <<>>
            /\ t \notin Passed
       /\ \A t \in Passed : Req(t).user_id \in StoredUsers
       /\ DOMAIN conversations = {conv_id[t][1] : t \in Passed}
       /\ uuidCount = Cardinality({t \in Passed : ~Truthy(Req(t).conversation_id)})

\* C5 witness: both endpoints have answered 404, one for a request that named
\* a conversation id and one for a request that omitted it, and the store is
\* empty.
C5_Witness ==
    \E t1, t2 \in Turns :
        /\ IsChat(t1) /\ IsStream(t2)
        /\ status[t1] = "404" /\ status[t2] = "404"
        /\ Req(t1).conversation_id = <<"c1">>
        /\ Req(t2).conversation_id = <<>>
        /\ DOMAIN conversations = {}

\* C6: (a) a turn whose request omits conversation_id resolves an identifier
\* that is not empty, that no client invented and no other turn generated,
\* that is the key of an entry of the store, and that its ChatResponse or its
\* start event carries; (b) a turn that arrives after such a turn has
\* completed and supplies that identifier hands the model a history in which
\* the first turn's two messages stand, and when it completes its own two
\* messages stand after them in the history stored under that identifier.
C6_GeneratedIdReused ==
    /\ \A t \in Turns :
        (request[t] # <<>> /\ Req(t).conversation_id = <<>> /\ conv_id[t] # <<>>) =>
            LET c == conv_id[t][1]
            IN /\ c # "" /\ c \notin ClientIds
               /\ c \in DOMAIN conversations
               /\ \A u \in Turns \ {t} :
                    (request[u] # <<>> /\ ~Truthy(Req(u).conversation_id))
                        => conv_id[u] # conv_id[t]
               /\ reply[t] # <<>> => reply[t][1].conversation_id = c
               /\ events[t] # <<>> => events[t][1].conversation_id = c
    /\ \A t1, t2 \in Turns :
        ( /\ t1 # t2 /\ request[t1] # <<>> /\ request[t2] # <<>>
          /\ Req(t1).conversation_id = <<>>
          /\ Completed(t1) /\ Before(t1, t2)
          /\ Req(t2).conversation_id = conv_id[t1]
          /\ invoked[t2] > 0 )
        => \E i \in 1..Len(context[t2]) :
              /\ PairAt(context[t2], i, t1)
              /\ Completed(t2) =>
                    /\ PairAt(Hist(conv_id[t1][1]), i, t1)
                    /\ \E j \in (i + 2)..Len(Hist(conv_id[t1][1])) :
                          PairAt(Hist(conv_id[t1][1]), j, t2)

\* C6 witness: a turn without conversation_id has completed, and a later turn
\* that supplied the generated identifier has completed too.
C6_Witness ==
    \E t1, t2 \in Turns :
        /\ Completed(t1) /\ Completed(t2) /\ Before(t1, t2)
        /\ Req(t1).conversation_id = <<>>
        /\ Req(t2).conversation_id = conv_id[t1]
        /\ Len(context[t2]) = 2

\* C7: in every reachable state, also while other turns on the same id are
\* suspended in their stream, every stored history has even length and is a
\* sequence of pairs, each pair being the user message of a completed turn on
\* that id immediately followed by the backend's full reply of that same turn.
C7_AtomicPairs ==
    \A c \in DOMAIN conversations :
        LET h == conversations[c]
        IN /\ Len(h) % 2 = 0
           /\ \A k \in 1..(Len(h) \div 2) :
                /\ h[2 * k - 1].type = "human" /\ h[2 * k].type = "ai"
                /\ \E t \in Turns :
                     /\ Completed(t) /\ conv_id[t] = <<c>>
                     /\ PairAt(h, 2 * k - 1, t)

\* C7 witness: two concurrent streaming turns on one id, the first completed
\* while the second, whose generation began on the empty history, is suspended
\* after a chunk.
C7_Witness ==
    \E t1, t2 \in Turns :
        /\ Concurrent(t1, t2) /\ IsStream(t1) /\ IsStream(t2)
        /\ conv_id[t1] = conv_id[t2] /\ conv_id[t1] # <<>>
        /\ Completed(t1) /\ generated[t1] # <<>>
        /\ pc[t2] = "streaming" /\ generated[t2] # <<>> /\ context[t2] = <<>>
        /\ Len(conversations[conv_id[t1][1]]) = 2

\* Both turns' pairs stand in the history of the id of t1.
BothKept(t1, t2) ==
    LET h == Hist(conv_id[t1][1])
    IN \E i, j \in 1..Len(h) : i # j /\ PairAt(h, i, t1) /\ PairAt(h, j, t2)

\* C8 as claimed, read on the interleavings it speaks of: when two concurrent
\* turns on one identifier have both completed, the history lacks a message of
\* one of them (the last write has won).
C8_ConcurrentUpdateLost ==
    \A t1, t2 \in Turns :
        ( /\ Concurrent(t1, t2)
          /\ Completed(t1) /\ Completed(t2)
          /\ conv_id[t1] = conv_id[t2] )
        => ~BothKept(t1, t2)

\* C8 amended (the negation of the claimed reachability): no interleaving
\* loses a history update.  Whenever two turns on one identifier have both
\* completed, concurrent or not, the history of that identifier holds the user
\* message and the reply of both, and as many pairs as turns have completed
\* on it.
C8_NoLostUpdate ==
    /\ \A t1, t2 \in Turns :
        (t1 # t2 /\ Completed(t1) /\ Completed(t2) /\ conv_id[t1] = conv_id[t2])
            => BothKept(t1, t2)
    /\ \A c \in DOMAIN conversations :
        Len(conversations[c]) =
            2 * Cardinality({t \in Turns : Completed(t) /\ conv_id[t] = <<c>>})

\* C8 witness: two concurrent turns on one identifier have both completed,
\* neither generation saw the other turn's messages, and the history holds
\* all four messages.
C8_Witness ==
    \E t1, t2 \in Turns :
        /\ Concurrent(t1, t2)
        /\ Completed(t1) /\ Completed(t2)
        /\ conv_id[t1] = conv_id[t2]
        /\ context[t1] = <<>> /\ context[t2] = <<>>
        /\ Len(Hist(conv_id[t1][1])) = 4
        /\ BothKept(t1, t2)

\* C9: the chunk events of a streaming turn carry, in order, exactly the
\* fragments the backend has produced; and for a completed streaming turn and
\* a completed non-streaming turn for which the backend produced the same
\* fragments, the concatenation of the chunk payloads equals the response text
\* of the ChatResponse.
C9_ChunksEqualResponse ==
    /\ \A t \in Turns : IsStream(t) => ChunkPayloads(events[t]) = generated[t]
    /\ \A t1, t2 \in Turns :
        ( /\ IsChat(t1) /\ Completed(t1)
          /\ IsStream(t2) /\ Completed(t2)
          /\ generated[t1] = generated[t2] )
        => Concat(ChunkPayloads(events[t2])) = reply[t1][1].response

\* C9 witness: a non-streaming and a streaming turn have completed on the same
\* history, the backend having produced the same MaxFrags fragments for both.
C9_Witness ==
    \E t1, t2 \in Turns :
        /\ IsChat(t1) /\ Completed(t1)
        /\ IsStream(t2) /\ Completed(t2)
        /\ context[t1] = context[t2]
        /\ generated[t1] = generated[t2]
        /\ Len(generated[t2]) = MaxFrags

IsPrefix(a, b) == Len(a) <= Len(b) /\ SubSeq(b, 1, Len(a)) = a

\* C10: every step keeps every entry of the store and only extends histories:
\* the history of each identifier after the step is the one before it
\* (empty for a new entry), unchanged or with the user message and the reply
\* of one turn that completes in the step appended; and a turn that completes
\* appends exactly these two messages to the history of its identifier.
C10_Step ==
    /\ DOMAIN conversations \subseteq DOMAIN conversations'
    /\ \A c \in DOMAIN conversations' :
        LET old == Hist(c)
            new == conversations'[c]
        IN /\ IsPrefix(old, new)
           /\ \/ new = old
              \/ \E t \in Turns :
                    /\ ~Completed(t) /\ Completed(t)'
                    /\ conv_id'[t] = <<c>>
                    /\ new = old \o <<UserOf(t), ReplyOf(t)'>>
    /\ \A t \in Turns :
        (~Completed(t) /\ Completed(t)') =>
            conversations'[conv_id'[t][1]] =
                Hist(conv_id'[t][1]) \o <<UserOf(t), ReplyOf(t)'>>
C10_AppendOnly == [][C10_Step]_vars

\* C10 witness: a history that held the two messages of one completed turn
\* has been extended by the two messages of a second one.
C10_Witness ==
    \E c \in DOMAIN conversations : \E t1, t2 \in Turns :
        /\ Len(conversations[c]) = 4
        /\ PairAt(conversations[c], 1, t1)
        /\ PairAt(conversations[c], 3, t2)
        /\ context[t2] = SubSeq(conversations[c], 1, 2)

\* The turn's model invocation has failed: POST /chat has answered 500,
\* POST /chatS has yielded its error event.
ModelFailed(t) == (IsChat(t) /\ status[t] = "500") \/ StreamFailed(t)

\* No turn on the conversation of turn t has completed.
NoneCompletedOn(t) == \A u \in Turns : conv_id[u] = conv_id[t] => ~Completed(u)

\* C17: once a handler has resolved the conversation id of a turn whose
\* profile load succeeded, the store has an entry for that id; in streaming
\* mode that is before the start event.  A turn whose model invocation fails
\* leaves that entry in place, with an empty history when the identifier had
\* no completed turn (it was unseen before the failed turn).
C17_FailedTurnLeavesEmptyEntry ==
    \A t \in Turns :
        conv_id[t] # <<>> =>
            /\ conv_id[t][1] \in DOMAIN conversations
            /\ (ModelFailed(t) /\ NoneCompletedOn(t)) => conversations[conv_id[t][1]] = <<>>

\* A POST /chat turn has failed with 500 on an identifier the client invented
\* and its empty entry is in the store, and a streaming turn that omitted the
\* identifier has its empty entry while no event has been yielded yet.
C17_Witness ==
    \E t, u \in Turns :
        /\ IsChat(t) /\ status[t] = "500"
        /\ Req(t).conversation_id = <<"c1">>
        /\ doneAtStart[t] = {}
        /\ "c1" \in DOMAIN conversations /\ conversations["c1"] = <<>>
        /\ IsStream(u) /\ pc[u] = "gen" /\ events[u] = <<>>
        /\ Req(u).conversation_id = <<>>
        /\ conv_id[u] # <<>>
        /\ conv_id[u][1] \in DOMAIN conversations
        /\ conversations[conv_id[u][1]] = <<>>

\* The request of turn t carries the empty string as conversation_id.
SentEmptyId(t) == request[t] # <<>> /\ Req(t).conversation_id = <<"">>

\* The identifier the response of turn t has told the client, if any.
ReturnedIds(t) ==
    (IF reply[t] # <<>> THEN {reply[t][1].conversation_id} ELSE {})
    \cup (IF events[t] # <<>> THEN {events[t][1].conversation_id} ELSE {})

\* C18: a request whose conversation_id is "" is handled like one without
\* identifier: the store never has the key "", the handler's identifier is a
\* generated one, the response returns it, and no other turn works on that
\* conversation unless its request names the generated identifier; two
\* turns that both send "" never share a history.
C18_EmptyIdIsOmitted ==
    /\ "" \notin DOMAIN conversations
    /\ \A t \in Turns :
        (SentEmptyId(t) /\ conv_id[t] # <<>>) =>
            /\ conv_id[t][1] \in {Uuid(n) : n \in 1..uuidCount}
            /\ ReturnedIds(t) \subseteq {conv_id[t][1]}
            /\ Completed(t) => ReturnedIds(t) = {conv_id[t][1]}
            /\ \A u \in Turns \ {t} :
                    conv_id[u] = conv_id[t] => Req(u).conversation_id = conv_id[t]
            /\ \A u \in Turns \ {t} : SentEmptyId(u) => conv_id[u] # conv_id[t]

\* Two turns that both sent "" have completed on two different generated
\* identifiers, each with a history of its own turn only.
C18_Witness ==
    \E t, u \in Turns :
        /\ t # u
        /\ SentEmptyId(t) /\ SentEmptyId(u)
        /\ Completed(t) /\ Completed(u)
        /\ conv_id[t] # conv_id[u]
        /\ Len(conversations[conv_id[t][1]]) = 2
        /\ Len(conversations[conv_id[u][1]]) = 2
        /\ conversations[conv_id[t][1]][1] = UserOf(t)
        /\ conversations[conv_id[u][1]][1] = UserOf(u)

----------------------------------------------------------------------------
(***************************************************************************)
(* The prompt composer and the profile loader (back_end/app/api/v1/         *)
(* prompts.py) and the image analysis endpoint (vision.py).  Their          *)
(* functions are studied one call at a time: `call` holds a function name   *)
(* and its arguments, drawn from bounded sets in InitFunctions, and one     *)
(* action per function stores in `outcome` what the call returns.           *)
(*                                                                          *)
(* A Python value is a record [kind, b, n, d, s]: None, a bool (b), an int  *)
(* (n), a float (the rational n/d) or a str (s, a sequence whose elements   *)
(* are single characters or whole literals of the source).  A dict is a     *)
(* function from the keys it has to values.                                 *)
(***************************************************************************)

\* Longest string, in characters, handed to _parse_bool.
MaxStrLen == 3

PyNone == [kind |-> "none", b |-> FALSE, n |-> 0, d |-> 1, s |-> <<>>]
PyBool(x) == [kind |-> "bool", b |-> x, n |-> 0, d |-> 1, s |-> <<>>]
PyInt(x) == [kind |-> "int", b |-> FALSE, n |-> x, d |-> 1, s |-> <<>>]
\* The float x/y (y > 0); PyFloat(x) is the float with the integral value x.
PyRatio(x, y) == [kind |-> "float", b |-> FALSE, n |-> x, d |-> y, s |-> <<>>]
PyFloat(x) == PyRatio(x, 1)
PyStr(x) == [kind |-> "str", b |-> FALSE, n |-> 0, d |-> 1, s |-> x]

\* Python truthiness of a value (the operand test of `or`, `if`, `not`).
PyTruthy(v) ==
    CASE v.kind = "none" -> FALSE
      [] v.kind = "bool" -> v.b
      [] v.kind \in {"int", "float"} -> v.n # 0
      [] v.kind = "str" -> v.s # <<>>

\* `x or d`.
Or(x, d) == IF PyTruthy(x) THEN x ELSE d

\* dict.get(key) and dict.get(key, default).
Get(d, key) == IF key \in DOMAIN d THEN d[key] ELSE PyNone
GetDefault(d, key, default) == IF key \in DOMAIN d THEN d[key] ELSE default

\* The letters that have two cases, as <<upper, lower>>.
CasePairs ==
    {<<"T", "t">>, <<"R", "r">>, <<"U", "u">>, <<"E", "e">>, <<"Y", "y">>,
     <<"S", "s">>, <<"F", "f">>, <<"A", "a">>, <<"L", "l">>, <<"N", "n">>,
     <<"O", "o">>}

\* str.lower(): every upper-case letter becomes its lower-case letter, every
\* other character stays.
LowerChar(c) ==
    IF \E p \in CasePairs : p[1] = c
    THEN (CHOOSE p \in CasePairs : p[1] = c)[2]
    ELSE c
Lower(s) == [i \in 1..Len(s) |-> LowerChar(s[i])]

\* _parse_bool that takes every truthy value for true.
_parse_bool_Truthy(value) == PyTruthy(value)

\* _parse_bool(value): None is false, a bool is itself, an int is true when
\* it is 1, a str is true when its lower-case form is "true", "1" or "yes";
\* a value of any other type is false.  bool is tested before int.
_parse_bool(value) ==
    CASE value.kind = "none" -> FALSE
      [] value.kind = "bool" -> value.b
      [] value.kind = "int" -> value.n = 1
      [] value.kind = "str" ->
            Lower(value.s) \in {<<"t", "r", "u", "e">>, <<"1">>, <<"y", "e", "s">>}
      [] OTHER -> FALSE

\* All sequences over the set A of length at most n.
RECURSIVE SeqsUpTo(_, _)
SeqsUpTo(A, n) ==
    IF n = 0 THEN {<<>>}
    ELSE LET shorter == SeqsUpTo(A, n - 1)
         IN shorter \cup {Append(q, a) : q \in {r \in shorter : Len(r) = n - 1}, a \in A}

\* The values handed to _parse_bool: None, the bools, small ints and floats,
\* every string of at most MaxStrLen characters over the letters of "yes" in
\* both cases, the digits and the blank, and the spellings of true and false.
ParseChars == {"y", "Y", "e", "E", "s", "S", "1", "0", " "}
ParseStrings ==
    SeqsUpTo(ParseChars, MaxStrLen)
    \cup {<<"t", "r", "u", "e">>, <<"T", "r", "u", "e">>, <<"T", "R", "U", "E">>,
          <<"t", "r", "u", "E">>, <<"f", "a", "l", "s", "e">>, <<"F", "a", "l", "s", "e">>,
          <<"n", "o">>, <<"t", "r", "u", "e", " ">>, <<"o", "n">>, <<"2">>}
ParseValues ==
    {PyNone, PyBool(TRUE), PyBool(FALSE)}
    \cup {PyInt(x) : x \in -1..2} \cup {PyFloat(x) : x \in 0..1}
    \cup {PyStr(x) : x \in ParseStrings}

\* A call of _parse_bool(value) returns.
ParseBool ==
    /\ call.fn = "_parse_bool"
    /\ outcome = <<>>
    /\ outcome' = <<_parse_bool(call.value)>>
    /\ UNCHANGED <<call, conversations, uuidCount, request, pc, status, conv_id, reply,
                   full_response, events, invoked, context, generated, model,
                   doneAtStart>>

----------------------------------------------------------------------------
\* Arithmetic, formatting and exceptions of the prompt composer

\* The exception an expression raises, "" when it raises none.
NoError == ""
\* The first exception raised by a sequence of steps executed in order.
FirstError(steps) ==
    IF \E i \in 1..Len(steps) : steps[i] # NoError
    THEN steps[CHOOSE i \in 1..Len(steps) :
                  steps[i] # NoError /\ \A j \in 1..(i - 1) : steps[j] = NoError]
    ELSE NoError

IsNumber(v) == v.kind \in {"bool", "int", "float"}
\* The numerator of a number; True is 1 and False is 0.
Num(v) == IF v.kind = "bool" THEN (IF v.b THEN 1 ELSE 0) ELSE v.n

RECURSIVE GCD(_, _)
GCD(a, b) == IF b = 0 THEN a ELSE GCD(b, a % b)
Abs(x) == IF x < 0 THEN -x ELSE x
\* The float x/y in lowest terms.
Reduced(x, y) ==
    LET g == GCD(Abs(x), y) IN IF g = 0 THEN PyRatio(0, 1) ELSE PyRatio(x \div g, y \div g)

\* `v > 0`: a str operand raises TypeError.
GtZeroError(v) == IF IsNumber(v) THEN NoError ELSE "TypeError"
GtZero(v) == IsNumber(v) /\ Num(v) > 0

\* `weight / ((height / 100) ** 2)`: ZeroDivisionError when the divisor is 0.
BmiDivError(weight, height) == IF Num(height) = 0 THEN "ZeroDivisionError" ELSE NoError
BmiDiv(weight, height) ==
    Reduced(Num(weight) * 100 * 100 * height.d * height.d,
            weight.d * Num(height) * Num(height))

\* f"{v:.1f}": the number rounded to one decimal; a str raises ValueError and
\* None raises TypeError.
Format1fError(v) ==
    IF IsNumber(v) THEN NoError ELSE IF v.kind = "str" THEN "ValueError" ELSE "TypeError"
Format1f(v) ==
    LET tenths == (20 * Abs(Num(v)) + v.d) \div (2 * v.d)
    IN  (IF Num(v) < 0 THEN <<"-">> ELSE <<>>)
        \o <<ToString(tenths \div 10), ".", ToString(tenths % 10)>>

\* f"{v}", that is str(v).
Format(v) ==
    CASE v.kind = "none" -> <<"None">>
      [] v.kind = "bool" -> IF v.b THEN <<"True">> ELSE <<"False">>
      [] v.kind = "int" -> <<ToString(v.n)>>
      [] v.kind = "float" -> Format1f(v)
      [] v.kind = "str" -> v.s

\* `v[:8]`: the first eight characters of a str; any other value raises TypeError.
Slice8Error(v) == IF v.kind = "str" THEN NoError ELSE "TypeError"
Slice8(v) == SubSeq(v.s, 1, IF Len(v.s) < 8 THEN Len(v.s) ELSE 8)

\* `", ".join(items)`: an item that is no str raises TypeError.
JoinError(items) ==
    IF \A i \in 1..Len(items) : items[i].kind = "str" THEN NoError ELSE "TypeError"
RECURSIVE Join(_)
Join(items) ==
    IF Len(items) = 0 THEN <<>>
    ELSE IF Len(items) = 1 THEN items[1].s
    ELSE items[1].s \o <<", ">> \o Join(Tail(items))

----------------------------------------------------------------------------
\* _normalize_user_data and create_health_mentor_prompt

\* _normalize_user_data(user_data): no step of it can raise.
_normalize_user_data(user_data) ==
    [user_id |-> GetDefault(user_data, "user_id", PyStr(<<"Unknown">>)),
     age |-> Or(Get(user_data, "age"), PyInt(0)),
     gender |-> Or(Get(user_data, "gender"), PyStr(<<"Not specified">>)),
     weight_kg |-> Or(Get(user_data, "weight_kg"), PyFloat(0)),
     height_cm |-> Or(Get(user_data, "height_cm"), PyFloat(0)),
     activity_level |-> Or(Get(user_data, "activity_level"), PyStr(<<"Moderate">>)),
     has_hypertension |-> _parse_bool(Get(user_data, "has_hypertension")),
     has_diabetes |-> _parse_bool(Get(user_data, "has_diabetes")),
     has_heart_condition |-> _parse_bool(Get(user_data, "has_heart_condition")),
     has_asthma |-> _parse_bool(Get(user_data, "has_asthma")),
     has_high_cholesterol |-> _parse_bool(Get(user_data, "has_high_cholesterol")),
     has_thyroid_disorder |-> _parse_bool(Get(user_data, "has_thyroid_disorder")),
     other_conditions |-> Get(user_data, "other_conditions"),
     allergies |-> Get(user_data, "allergies"),
     medications |-> Get(user_data, "medications"),
     medical_conditions |-> Get(user_data, "medical_conditions"),
     goal_type |-> Get(user_data, "goal_type"),
     goal_intensity |-> Get(user_data, "goal_intensity"),
     target_weight_kg |-> Get(user_data, "target_weight_kg"),
     fitness_goals |-> Get(user_data, "fitness_goals"),
     daily_calorie_goal |-> Or(Get(user_data, "daily_calorie_goal"), PyInt(2000)),
     daily_step_goal |-> Or(Get(user_data, "daily_step_goal"), PyInt(10000)),
     daily_distance_goal |-> Or(Get(user_data, "daily_distance_goal"), PyFloat(5)),
     daily_active_minutes_goal |-> Or(Get(user_data, "daily_active_minutes_goal"), PyInt(30)),
     daily_protein_goal |-> Or(Get(user_data, "daily_protein_goal"), PyInt(150)),
     daily_carbs_goal |-> Or(Get(user_data, "daily_carbs_goal"), PyInt(250)),
     daily_fats_goal |-> Or(Get(user_data, "daily_fats_goal"), PyInt(70))]

\* The BMI guard that tests the weight only.
BmiGuard_WeightOnly(weight, height) == GtZero(weight)

\* `weight > 0 and height > 0`; `and` does not evaluate its right operand
\* when the left one is false.
BmiGuard(weight, height) == GtZero(weight) /\ GtZero(height)
BmiGuardError(weight, height) ==
    FirstError(<<GtZeroError(weight),
                 IF GtZero(weight) THEN GtZeroError(height) ELSE NoError>>)

\* The list `conditions` in reverse order of the flags.
Conditions_Reversed(u) ==
    (IF PyTruthy(u.other_conditions) THEN <<u.other_conditions>> ELSE <<>>)
    \o (IF u.has_thyroid_disorder THEN <<PyStr(<<"thyroid disorder">>)>> ELSE <<>>)
    \o (IF u.has_high_cholesterol THEN <<PyStr(<<"high cholesterol">>)>> ELSE <<>>)
    \o (IF u.has_asthma THEN <<PyStr(<<"asthma">>)>> ELSE <<>>)
    \o (IF u.has_heart_condition THEN <<PyStr(<<"heart condition">>)>> ELSE <<>>)
    \o (IF u.has_diabetes THEN <<PyStr(<<"diabetes">>)>> ELSE <<>>)
    \o (IF u.has_hypertension THEN <<PyStr(<<"hypertension">>)>> ELSE <<>>)

\* The list `conditions` built from the normalized data u.
Conditions(u) ==
    (IF u.has_hypertension THEN <<PyStr(<<"hypertension">>)>> ELSE <<>>)
    \o (IF u.has_diabetes THEN <<PyStr(<<"diabetes">>)>> ELSE <<>>)
    \o (IF u.has_heart_condition THEN <<PyStr(<<"heart condition">>)>> ELSE <<>>)
    \o (IF u.has_asthma THEN <<PyStr(<<"asthma">>)>> ELSE <<>>)
    \o (IF u.has_high_cholesterol THEN <<PyStr(<<"high cholesterol">>)>> ELSE <<>>)
    \o (IF u.has_thyroid_disorder THEN <<PyStr(<<"thyroid disorder">>)>> ELSE <<>>)
    \o (IF PyTruthy(u.other_conditions) THEN <<u.other_conditions>> ELSE <<>>)

\* `x or fallback` that never takes the fallback.
OrFallback_Never(x, fallback) == x

\* `x or 'fallback text'` of the optional sections.
OrFallback(x, fallback) == Or(x, PyStr(<<fallback>>))

\* create_health_mentor_prompt(user_data): the exception it raises, or its
\* local values and the values the returned template interpolates.
create_health_mentor_prompt(data) ==
    LET user_data == _normalize_user_data(data)
        weight == user_data.weight_kg
        height == user_data.height_cm
        guardError == BmiGuardError(weight, height)
        guard == guardError = NoError /\ BmiGuard(weight, height)
        bmiError == IF guard THEN BmiDivError(weight, height) ELSE NoError
        bmi == IF guard /\ bmiError = NoError THEN BmiDiv(weight, height) ELSE PyInt(0)
        conditions == Conditions(user_data)
        conditions_str ==
            IF Len(conditions) > 0 /\ JoinError(conditions) = NoError
            THEN Join(conditions) ELSE <<"none reported">>
        allergies_str == OrFallback(user_data.allergies, "none reported")
        medications_str == OrFallback(user_data.medications, "none reported")
        goal_type_str == OrFallback(user_data.goal_type, "general wellness")
        goal_intensity_str == OrFallback(user_data.goal_intensity, "moderate")
        hasTarget == PyTruthy(user_data.target_weight_kg)
        targetError == IF hasTarget THEN Format1fError(user_data.target_weight_kg) ELSE NoError
        target_weight_str ==
            IF hasTarget /\ targetError = NoError
            THEN Format1f(user_data.target_weight_kg) ELSE <<"not set">>
        fitness_goals_str == OrFallback(user_data.fitness_goals, "not specified")
        raised ==
            FirstError(<<guardError, bmiError, JoinError(conditions), targetError,
                         Slice8Error(user_data.user_id), Format1fError(weight),
                         Format1fError(height)>>)
    IN  IF raised # NoError
        THEN [raised |-> raised]
        ELSE [raised |-> NoError,
              bmi |-> bmi,
              name |-> Slice8(user_data.user_id),
              age |-> Format(user_data.age),
              gender |-> Format(user_data.gender),
              weight |-> Format1f(weight),
              height |-> Format1f(height),
              bmi_str |-> Format1f(bmi),
              activity_level |-> Format(user_data.activity_level),
              conditions_str |-> conditions_str,
              allergies_str |-> Format(allergies_str),
              medications_str |-> Format(medications_str),
              goal_type_str |-> Format(goal_type_str),
              goal_intensity_str |-> Format(goal_intensity_str),
              target_weight_str |-> target_weight_str,
              fitness_goals_str |-> Format(fitness_goals_str),
              daily_calorie_goal |-> Format(user_data.daily_calorie_goal),
              daily_step_goal |-> Format(user_data.daily_step_goal),
              daily_distance_goal |-> Format(user_data.daily_distance_goal),
              daily_active_minutes_goal |-> Format(user_data.daily_active_minutes_goal),
              daily_protein_goal |-> Format(user_data.daily_protein_goal),
              daily_carbs_goal |-> Format(user_data.daily_carbs_goal),
              daily_fats_goal |-> Format(user_data.daily_fats_goal)]

----------------------------------------------------------------------------
\* The profiles handed to create_health_mentor_prompt

\* Marks a key the dict does not have.
Absent == [kind |-> "absent", b |-> FALSE, n |-> 0, d |-> 1, s |-> <<>>]

\* The dict d with the keys of f set to f's values, or removed where f says Absent.
With(d, f) ==
    [k \in (DOMAIN d \ {j \in DOMAIN f : f[j] = Absent})
           \cup {j \in DOMAIN f : f[j] # Absent} |->
        IF k \in DOMAIN f THEN f[k] ELSE d[k]]

FlagKeys ==
    {"has_hypertension", "has_diabetes", "has_heart_condition", "has_asthma",
     "has_high_cholesterol", "has_thyroid_disorder"}
OptionalTextKeys == {"allergies", "medications", "goal_type", "goal_intensity", "fitness_goals"}

\* A complete, well-typed record of a user without medical conditions: the
\* user record merged with the profile, as get_user_prompt_data returns it.
BaseProfile ==
    [k \in FlagKeys |-> PyBool(FALSE)]
    @@ [k \in OptionalTextKeys |-> PyStr(<<k>>)]
    @@ [user_id |-> PyStr(<<"u", "s", "e", "r", "-", "0", "0", "0", "2">>),
        age |-> PyInt(30),
        gender |-> PyStr(<<"female">>),
        weight_kg |-> PyFloat(70),
        height_cm |-> PyFloat(175),
        activity_level |-> PyStr(<<"Active">>),
        other_conditions |-> PyNone,
        target_weight_kg |-> PyFloat(65),
        daily_calorie_goal |-> PyInt(2000),
        daily_step_goal |-> PyInt(10000)]

\* What the store can hold for a flag, for other_conditions, for an optional
\* text field, for the target weight and for weight and height.  A str where
\* a number is expected is a record the data model does not allow.
FlagValues == {Absent, PyBool(TRUE), PyStr(<<"Y", "e", "s">>), PyInt(2)}
OtherConditionsValues == {PyNone, PyStr(<<>>), PyStr(<<"gout">>)}
OptionalTextValues == {Absent, PyNone, PyStr(<<>>), PyStr(<<"text">>)}
TargetWeightValues == {Absent, PyNone, PyFloat(0), PyFloat(65), PyStr(<<"65">>)}
WeightValues ==
    {Absent, PyNone, PyFloat(0), PyInt(0), PyFloat(-70), PyFloat(70), PyStr(<<"70">>)}
HeightValues ==
    {Absent, PyNone, PyFloat(0), PyInt(0), PyFloat(-175), PyFloat(175), PyStr(<<"175">>)}

\* The profiles: BaseProfile with its flags and other_conditions varied, with
\* its optional fields varied, or with its weight and height varied.
FlagProfile(f, o) == With(BaseProfile, f @@ [other_conditions |-> o])
OptionalProfile(f, w) == With(BaseProfile, f @@ [target_weight_kg |-> w])
BodyProfile(w, h) == With(BaseProfile, [weight_kg |-> w, height_cm |-> h])

PromptCall(p) == [fn |-> "create_health_mentor_prompt", user_data |-> p]

\* A call of create_health_mentor_prompt(user_data) returns or raises.
CreatePrompt ==
    /\ call.fn = "create_health_mentor_prompt"
    /\ outcome = <<>>
    /\ outcome' = <<create_health_mentor_prompt(call.user_data)>>
    /\ UNCHANGED <<call, conversations, uuidCount, request, pc, status, conv_id, reply,
                   full_response, events, invoked, context, generated, model,
                   doneAtStart>>

----------------------------------------------------------------------------
\* get_user_prompt_data

\* Python truthiness of what a store read returns: None (<<>>) and the
\* empty dict are falsy.
DictTruthy(opt) == opt # <<>> /\ DOMAIN opt[1] # {}

\* The merge in which the base record wins on shared keys.
Merge_BaseWins(user, profile) == user @@ profile

\* `combined_data = {**user}; combined_data.update(profile)`.
Merge(user, profile) == profile @@ user

\* get_user_prompt_data(user_id), given what get_user_by_id and
\* get_user_profile return for user_id: None, or the combined data.
get_user_prompt_data(user, profile) ==
    IF ~DictTruthy(user) THEN <<>>
    ELSE IF DictTruthy(profile) THEN <<Merge(user[1], profile[1])>>
    ELSE <<user[1]>>

\* The records of the store: dicts over a few keys, two values per key.  A
\* user record is written with its fields at signup and is never empty; a
\* profile sub-record can be absent or empty.
RecordKeys == {"user_id", "age", "weight_kg"}
RecordValues == {PyInt(30), PyInt(40)}
Records == UNION {[K -> RecordValues] : K \in SUBSET RecordKeys}
UserRecords == {<<>>} \cup {<<r>> : r \in {q \in Records : DOMAIN q # {}}}
ProfileRecords == {<<>>} \cup {<<r>> : r \in Records}

\* A call of get_user_prompt_data(user_id) returns.
GetUserPromptData ==
    /\ call.fn = "get_user_prompt_data"
    /\ outcome = <<>>
    /\ outcome' = <<get_user_prompt_data(call.user, call.profile)>>
    /\ UNCHANGED <<call, conversations, uuidCount, request, pc, status, conv_id, reply,
                   full_response, events, invoked, context, generated, model,
                   doneAtStart>>

----------------------------------------------------------------------------
\* get_calories (vision.py)

\* Longest model output, in tokens, handed to json.loads.
MaxTokens == 5

\* The text the vision model returns is a sequence of tokens: braces, colon,
\* the string literal "k", the number 1, white space, or anything else.
JsonTokens == {"{", "}", ":", "\"k\"", "1", " "}
NotSpace(tok) == tok # " "

\* The scanner of json.loads on a text without white space: a value is the
\* number, the string, the empty object or an object with one member whose
\* value is a value.  It yields whether a value was read and the text left.
JsonFail == [ok |-> FALSE, rest |-> <<>>]
RECURSIVE JsonValue(_)
JsonValue(t) ==
    IF t = <<>> THEN JsonFail
    ELSE IF t[1] \in {"1", "\"k\""} THEN [ok |-> TRUE, rest |-> Tail(t)]
    ELSE IF t[1] # "{" THEN JsonFail
    ELSE IF Len(t) >= 2 /\ t[2] = "}" THEN [ok |-> TRUE, rest |-> SubSeq(t, 3, Len(t))]
    ELSE IF Len(t) >= 3 /\ t[2] = "\"k\"" /\ t[3] = ":"
         THEN LET member == JsonValue(SubSeq(t, 4, Len(t)))
              IN  IF member.ok /\ member.rest # <<>> /\ member.rest[1] = "}"
                  THEN [ok |-> TRUE, rest |-> Tail(member.rest)]
                  ELSE JsonFail
    ELSE JsonFail

\* json.loads(text): the document, white space dropped, when the whole text
\* is one value; JSONDecodeError otherwise.  JSONResponse renders a parsed
\* document in the compact form, which is that text.
JsonLoads(text) ==
    LET t == SelectSeq(text, NotSpace)
        v == JsonValue(t)
    IN  IF v.ok /\ v.rest = <<>> THEN [ok |-> TRUE, document |-> t]
        ELSE [ok |-> FALSE, document |-> <<>>]

\* JSONResponse(content, status_code); the default status code is 200.
JSONResponse(content, status_code) == [status_code |-> status_code, content |-> content]

\* The response get_calories gives to model output json.loads cannot decode.
InvalidJsonResponse(result) ==
    JSONResponse([raw_result |-> result, error |-> "Invalid JSON response from LLM"], "200")

\* get_calories(file), given how the upload went and what analyse_image did:
\* any exception of the upload, of analyse_image or of json.loads on a result
\* that is no text gives 500; a decoded document gives 200.
get_calories(upload, analysis) ==
    IF upload # "ok" THEN JSONResponse([error |-> upload], "500")
    ELSE IF analysis.kind = "raise" THEN JSONResponse([error |-> analysis.error], "500")
    ELSE IF analysis.kind = "none" THEN JSONResponse([error |-> "TypeError"], "500")
    ELSE IF JsonLoads(analysis.text).ok
         THEN JSONResponse([document |-> JsonLoads(analysis.text).document], "200")
    ELSE InvalidJsonResponse(analysis.text)

\* What analyse_image can do: raise, return None (a message without
\* content) or return a text of at most MaxTokens tokens, or prose.
ModelOutputs ==
    SeqsUpTo(JsonTokens, MaxTokens) \cup {<<"Here it is:", "{", "}">>, <<"not json">>}
Analyses ==
    {[kind |-> "raise", error |-> "ResponseError", text |-> <<>>],
     [kind |-> "none", error |-> "", text |-> <<>>]}
    \cup {[kind |-> "text", error |-> "", text |-> t] : t \in ModelOutputs}

\* A call of get_calories(file) returns its response.
GetCalories ==
    /\ call.fn = "get_calories"
    /\ outcome = <<>>
    /\ outcome' = <<get_calories(call.upload, call.analysis)>>
    /\ UNCHANGED <<call, conversations, uuidCount, request, pc, status, conv_id, reply,
                   full_response, events, invoked, context, generated, model,
                   doneAtStart>>

----------------------------------------------------------------------------
InitFunctions ==
    /\ conversations = <<>>
    /\ uuidCount = 0
    /\ request = [t \in Turns |-> <<>>]
    /\ pc = [t \in Turns |-> "idle"]
    /\ status = [t \in Turns |-> ""]
    /\ conv_id = [t \in Turns |-> <<>>]
    /\ reply = [t \in Turns |-> <<>>]
    /\ full_response = [t \in Turns |-> <<>>]
    /\ events = [t \in Turns |-> <<>>]
    /\ invoked = [t \in Turns |-> 0]
    /\ context = [t \in Turns |-> <<>>]
    /\ generated = [t \in Turns |-> <<>>]
    /\ model = [t \in Turns |-> "idle"]
    /\ doneAtStart = [t \in Turns |-> {}]
    /\ \/ call \in {[fn |-> "_parse_bool", value |-> v] : v \in ParseValues}
       \/ \E f \in [FlagKeys -> FlagValues], o \in OtherConditionsValues :
            call = PromptCall(FlagProfile(f, o))
       \/ \E f \in [OptionalTextKeys -> OptionalTextValues], w \in TargetWeightValues :
            call = PromptCall(OptionalProfile(f, w))
       \/ \E w \in WeightValues, h \in HeightValues :
            call = PromptCall(BodyProfile(w, h))
       \/ \E u \in UserRecords, p \in ProfileRecords :
            call = [fn |-> "get_user_prompt_data", user |-> u, profile |-> p]
       \/ \E a \in Analyses :
            call = [fn |-> "get_calories", upload |-> "ok", analysis |-> a]
       \/ call = [fn |-> "get_calories", upload |-> "OSError",
                  analysis |-> [kind |-> "none", error |-> "", text |-> <<>>]]
    /\ outcome = <<>>

NextFunctions ==
    \/ ParseBool
    \/ CreatePrompt
    \/ GetUserPromptData
    \/ GetCalories

SpecFunctions == InitFunctions /\ [][NextFunctions]_vars

Returned(fn) == call.fn = fn /\ outcome # <<>>

\* The spellings of true the specification names, in lower case.
TrueWords == {<<"t", "r", "u", "e">>, <<"1">>, <<"y", "e", "s">>}

\* Two characters are equal up to case.
SameLetter(a, b) == a = b \/ <<a, b>> \in CasePairs \/ <<b, a>> \in CasePairs
\* Two strings are equal up to case.
EqualIgnoringCase(s, w) ==
    Len(s) = Len(w) /\ \A i \in 1..Len(s) : SameLetter(s[i], w[i])

\* C11: _parse_bool returns true exactly for native true, the integer 1 and
\* the strings that equal "true", "1" or "yes" up to case; every other value
\* (native false, "false", "0", None, the integer 2, ...) gives false.
C11_ParseBoolExact ==
    Returned("_parse_bool") =>
        LET v == call.value
        IN outcome[1] <=>
              \/ v.kind = "bool" /\ v.b
              \/ v.kind = "int" /\ v.n = 1
              \/ v.kind = "str" /\ \E w \in TrueWords : EqualIgnoringCase(v.s, w)

\* A mixed-case "yes" has been parsed to true.
C11_Witness ==
    /\ Returned("_parse_bool")
    /\ call.value = PyStr(<<"Y", "e", "S">>)
    /\ outcome[1] = TRUE

\* The call of create_health_mentor_prompt has returned without raising.
Composed == Returned("create_health_mentor_prompt") /\ outcome[1].raised = NoError
\* The call of create_health_mentor_prompt has raised.
Raised == Returned("create_health_mentor_prompt") /\ outcome[1].raised # NoError

\* The six flags in the order of the conditions line, and their names.
FlagOrder ==
    <<"has_hypertension", "has_diabetes", "has_heart_condition", "has_asthma",
      "has_high_cholesterol", "has_thyroid_disorder">>
FlagName ==
    [has_hypertension |-> "hypertension", has_diabetes |-> "diabetes",
     has_heart_condition |-> "heart condition", has_asthma |-> "asthma",
     has_high_cholesterol |-> "high cholesterol",
     has_thyroid_disorder |-> "thyroid disorder"]

\* The flag of the profile parses to true.
FlagSet(k) == _parse_bool(Get(call.user_data, k))
\* The names the conditions line has to list: those of the flags that parse
\* to true, in order, then other_conditions when it is a non-empty text.
ExpectedConditions ==
    LET other == Get(call.user_data, "other_conditions")
        flags == SelectSeq(FlagOrder, FlagSet)
    IN  [i \in 1..Len(flags) |-> FlagName[flags[i]]]
        \o (IF other.kind = "str" /\ other.s # <<>> THEN other.s ELSE <<>>)

\* C12: the conditions line lists, separated by ", ", the names of exactly
\* the flags that parse to true, in the order hypertension, diabetes, heart
\* condition, asthma, high cholesterol, thyroid disorder, then the non-empty
\* other_conditions text; it is "none reported" when nothing is listed; with
\* only has_diabetes true and other_conditions null it is exactly "diabetes".
C12_ConditionsLine ==
    Composed =>
        LET line == outcome[1].conditions_str
            names == ExpectedConditions
        IN  /\ names = <<>> => line = <<"none reported">>
            /\ names # <<>> =>
                /\ Len(line) = 2 * Len(names) - 1
                /\ \A i \in 1..Len(names) : line[2 * i - 1] = names[i]
                /\ \A i \in 1..(Len(names) - 1) : line[2 * i] = ", "
            /\ (/\ Get(call.user_data, "has_diabetes") = PyBool(TRUE)
                /\ \A k \in FlagKeys \ {"has_diabetes"} : ~FlagSet(k)
                /\ Get(call.user_data, "other_conditions") = PyNone)
               => line = <<"diabetes">>

\* A profile with three conditions, one of them free text, has been rendered;
\* a flag that is truthy but does not parse to true is left out.
C12_Witness ==
    /\ Composed
    /\ Get(call.user_data, "has_hypertension") = PyInt(2)
    /\ outcome[1].conditions_str = <<"diabetes", ", ", "asthma", ", ", "gout">>

\* The field is missing from the profile: the key is absent or its value is None.
Missing(k) == Get(call.user_data, k) = PyNone

\* The values the profile has are of the types of the data model: the
\* numeric fields hold numbers, the text fields hold text.
WellTyped ==
    /\ \A k \in {"weight_kg", "height_cm", "target_weight_kg"} :
            Missing(k) \/ Get(call.user_data, k).kind \in {"int", "float"}
    /\ \A k \in OptionalTextKeys \cup {"other_conditions"} :
            Missing(k) \/ Get(call.user_data, k).kind = "str"
    /\ GetDefault(call.user_data, "user_id", PyStr(<<>>)).kind = "str"

\* The fixed fallback text of each optional field, and the interpolated value
\* of the prompt that shows it.
Fallback ==
    [allergies |-> "none reported", medications |-> "none reported",
     goal_type |-> "general wellness", goal_intensity |-> "moderate",
     target_weight_kg |-> "not set", fitness_goals |-> "not specified"]
Rendered(k) ==
    CASE k = "allergies" -> outcome[1].allergies_str
      [] k = "medications" -> outcome[1].medications_str
      [] k = "goal_type" -> outcome[1].goal_type_str
      [] k = "goal_intensity" -> outcome[1].goal_intensity_str
      [] k = "target_weight_kg" -> outcome[1].target_weight_str
      [] k = "fitness_goals" -> outcome[1].fitness_goals_str

\* C13: for a profile of well-typed values in which any subset of allergies,
\* medications, goal_type, goal_intensity, target_weight_kg and fitness_goals
\* is missing, create_health_mentor_prompt does not raise and renders for
\* each missing field its fallback text.
C13_FallbacksRendered ==
    (Returned("create_health_mentor_prompt") /\ WellTyped) =>
        /\ outcome[1].raised = NoError
        /\ \A k \in DOMAIN Fallback : Missing(k) => Rendered(k) = <<Fallback[k]>>

\* A profile without any of the six optional fields (some keys absent, some
\* None) has been rendered with all six fallback texts.
C13_Witness ==
    /\ Composed
    /\ \A k \in DOMAIN Fallback : Missing(k)
    /\ "allergies" \notin DOMAIN call.user_data
    /\ "medications" \in DOMAIN call.user_data
    /\ \A k \in DOMAIN Fallback : Rendered(k) = <<Fallback[k]>>

\* The field is zero, missing or negative.
NotPositive(k) ==
    \/ Missing(k)
    \/ IsNumber(Get(call.user_data, k)) /\ Num(Get(call.user_data, k)) <= 0

\* C15: when weight_kg or height_cm is zero, missing or negative (the other
\* one being any number or missing), the call raises no ZeroDivisionError
\* nor any other error and the BMI it computes is exactly 0.
C15_BmiZero ==
    (/\ Returned("create_health_mentor_prompt")
     /\ WellTyped
     /\ NotPositive("weight_kg") \/ NotPositive("height_cm")) =>
        /\ outcome[1].raised = NoError
        /\ outcome[1].bmi = PyInt(0)
        /\ outcome[1].bmi_str = <<"0", ".", "0">>

\* A profile with a positive weight and the height 0 has been rendered with
\* the BMI 0.
C15_Witness ==
    /\ Composed
    /\ Get(call.user_data, "weight_kg") = PyFloat(70)
    /\ Get(call.user_data, "height_cm") = PyFloat(0)
    /\ outcome[1].bmi = PyInt(0)

\* C14: get_user_prompt_data returns None when the base user record is
\* absent, whatever the profile sub-record is; when the base record exists
\* it returns a record with the keys of both in which the profile's value
\* stands for every key the profile has and the base record's value for the
\* others; with an absent profile that is the base record alone.
C14_LoaderMerge ==
    Returned("get_user_prompt_data") =>
        LET result == outcome[1]
        IN  /\ call.user = <<>> => result = <<>>
            /\ call.user # <<>> =>
                /\ result # <<>>
                /\ LET user == call.user[1]
                       profile == IF call.profile = <<>> THEN <<>> ELSE call.profile[1]
                   IN  /\ DOMAIN result[1] = DOMAIN user \cup DOMAIN profile
                       /\ \A k \in DOMAIN profile : result[1][k] = profile[k]
                       /\ \A k \in DOMAIN user \ DOMAIN profile : result[1][k] = user[k]
                /\ call.profile = <<>> => result[1] = call.user[1]

\* A base record and a profile that disagree on a shared key have been
\* merged, and the profile's value stands.
C14_Witness ==
    /\ Returned("get_user_prompt_data")
    /\ call.user = <<[age |-> PyInt(30), user_id |-> PyInt(30)]>>
    /\ call.profile = <<[age |-> PyInt(40), weight_kg |-> PyInt(30)]>>
    /\ outcome[1] = <<[age |-> PyInt(40), user_id |-> PyInt(30), weight_kg |-> PyInt(30)]>>

\* The model has returned a text that is no JSON document.
MalformedOutput ==
    /\ call.fn = "get_calories"
    /\ call.upload = "ok"
    /\ call.analysis.kind = "text"
    /\ ~JsonLoads(call.analysis.text).ok

\* C16: model output that is no JSON document is answered with a server
\* error, status 500.
C16_MalformedOutputIs500 ==
    (Returned("get_calories") /\ MalformedOutput) => outcome[1].status_code = "500"

\* Prose instead of a JSON document has been answered with the status 200
\* and a body that carries the raw text and an error message.
C16_Witness ==
    /\ Returned("get_calories")
    /\ call.analysis.text = <<"not json">>
    /\ outcome[1] = InvalidJsonResponse(<<"not json">>)
    /\ outcome[1].status_code = "200"

====
